---- MODULE Spec2Model ----
(***************************************************************************)
(* Incremental per-slide regeneration pipeline of powerpoint-to-video:     *)
(* the artifact directory (slide images, script files, audio files, final  *)
(* video), the staleness policy, the slide loops of the command line tool  *)
(* (auto_presenter.main) and of the HTTP backend (process_presentation,    *)
(* regenerate_audio_and_video), the video assembler and the job record.    *)
(*                                                                         *)
(* One presentation / one job directory is modelled.  Files are records    *)
(* with an existence flag, a content token and a modification time taken   *)
(* from a coarse clock: two writes with no tick in between get the same    *)
(* mtime.  External collaborators (vision model, TTS engine, encoder,      *)
(* file I/O) are nondeterministic outcomes drawn with \E in each step.     *)
(***************************************************************************)
EXTENDS Integers, Sequences, FiniteSets, TLC

\* ---------------------------------------------------------------- bounds
MaxSlides == 2
MaxTime == 1
\* External failures (I/O errors, failed model, TTS or encoder calls) injected
\* in one behaviour.
MaxFaults == 1
MaxDeck == 6

Slides == 1..MaxSlides
Times == 0..MaxTime

\* ------------------------------------------------------- values and files
\* Python's None, as returned by the loaders / generators / synthesizer.
None == "None"

\* Raw texts a user can submit or put in a script file: a whitespace-only
\* text and a real text.  "gen" is what the vision model writes.
UserTexts == {" ", "usr"}
GenText == "gen"

\* A script file and an audio file that do not exist.
NoScript == [ex |-> FALSE, text |-> "", mtime |-> 0]
NoAudio == [ex |-> FALSE, mtime |-> 0]

\* str.strip() on the content tokens.
strip(t) == IF t \in {"", " "} THEN "" ELSE t

\* Python truthiness of an optional string.
Truthy(x) == x # None /\ x # ""

VARIABLES
    clock,          \* filesystem time
    image,          \* slide_<i>.png exists
    script,         \* script_<i>.txt : [ex, text, mtime]
    audio,          \* audio_<i>.wav  : [ex, mtime]
    video,          \* <name>_presentation.mp4 : [ex, complete]
    vision_model,   \* global vision_model is not None
    tts_engine,     \* global tts_engine is not None
    status,         \* job["status"], "nojob" before the upload
    progress,       \* job["progress"]
    background_tasks, \* tasks added by add_task and not yet started
    response,       \* status code of the last upload or script edit response
    task,           \* background task / program owning the directory
    pc,             \* its position
    total,          \* len(slide_images) of the running task
    audio_files,    \* the audio_files list built by the running loop
    successful_audio_count, \* main's counter of slides with audio
    updated_slides, \* argument of regenerate_audio_and_video
    clips,          \* slides of the clips list built by the last assembler call
    clip_errors,    \* slides whose clip could not be built in that call
    attempts,       \* encoder configurations tried by the last assembler call
    removals,       \* what became of the failed file before each retry
    genCalls,       \* slides for which the running task called the vision model
    told,           \* <<slide, position>> told to the vision model in these calls
    synCalls,       \* slides for which the running task called the TTS engine
    failed,         \* slides for which one of these calls failed
    faults          \* external failures injected so far

vars == <<clock, image, script, audio, video, vision_model, tts_engine,
          status, progress, background_tasks, response, task, pc, total,
          audio_files,
          successful_audio_count, updated_slides, clips, clip_errors,
          attempts, removals, genCalls, told, synCalls, failed, faults>>

store == <<image, script, audio, video>>
config == <<vision_model, tts_engine>>
job == <<status, progress>>
http == <<background_tasks, response>>

\* ------------------------------------------------------------ file helpers
\* save_script_to_file: True and the file rewritten at the current time, or
\* False (open/write raised) and the file as it was.
save_script_to_file(f, text, ok, now) ==
    IF ok THEN [file |-> [ex |-> TRUE, text |-> text, mtime |-> now], ret |-> TRUE]
          ELSE [file |-> f, ret |-> FALSE]

\* Variant of load_script_from_file that returns the content of the file
\* although the read raised.
load_script_from_file_ignores_error(f, ok) ==
    IF f.ex THEN strip(f.text) ELSE None

\* load_script_from_file: the stripped content, or None when open/read raises
\* (a missing file raises too).
load_script_from_file(f, ok) ==
    IF f.ex /\ ok THEN strip(f.text) ELSE None

\* Variants of the staleness policy: the script check made first; a missing
\* script forcing regeneration; a non-strict timestamp comparison.
should_regenerate_audio_script_first(sf, af) ==
    IF ~sf.ex THEN FALSE
    ELSE IF ~af.ex THEN TRUE
    ELSE sf.mtime > af.mtime

should_regenerate_audio_no_script(sf, af) ==
    IF ~af.ex THEN TRUE
    ELSE IF ~sf.ex THEN TRUE
    ELSE sf.mtime > af.mtime

should_regenerate_audio_non_strict(sf, af) ==
    IF ~af.ex THEN TRUE
    ELSE IF ~sf.ex THEN FALSE
    ELSE sf.mtime >= af.mtime

should_regenerate_audio(sf, af) ==
    IF ~af.ex THEN TRUE
    ELSE IF ~sf.ex THEN FALSE
    ELSE sf.mtime > af.mtime

\* Outcomes of the vision model call: a script, an empty response, an exception.
GenOutcomes == {GenText, "", None}

\* generate_script_for_slide: the stripped response text, None on any exception.
generate_script_for_slide(outcome) ==
    IF outcome = None THEN None ELSE strip(outcome)

\* Position told to the generator.
context_prompt(slide_number, total_slides) ==
    IF slide_number = 1 THEN "first"
    ELSE IF slide_number = total_slides THEN "final"
    ELSE "middle"

\* Outcomes of tts_to_file: the file is written, or an exception is raised
\* and the file is as it was.
SynOutcomes == {"ok", "raise"}

\* Variant: the output path is returned even when the engine raised.
synthesize_speech_with_coqui_path_on_error(text, af, outcome, now) ==
    IF ~Truthy(text) THEN [file |-> af, ret |-> FALSE, called |-> FALSE]
    ELSE [file |-> IF outcome = "ok" THEN [ex |-> TRUE, mtime |-> now] ELSE af,
          ret |-> TRUE, called |-> TRUE]

\* synthesize_speech_with_coqui: ret is TRUE for output_path, FALSE for None;
\* called tells whether the engine was invoked.  After a normal return the
\* function checks that the file exists at output_path.
synthesize_speech_with_coqui(text, af, outcome, now) ==
    IF ~Truthy(text) THEN [file |-> af, ret |-> FALSE, called |-> FALSE]
    ELSE IF outcome = "raise" THEN [file |-> af, ret |-> FALSE, called |-> TRUE]
    ELSE LET f == [ex |-> TRUE, mtime |-> now]
         IN [file |-> f, ret |-> f.ex, called |-> TRUE]

\* The call of the vision model for this iteration failed: it was made and
\* gave no script.
gen_failed(callGen, scr) == callGen /\ ~Truthy(scr)

\* The call of the TTS engine failed: it was made and raised.
syn_failed(called, outcome) == called /\ outcome # "ok"

\* Per-slide external outcomes of one iteration of a full slide loop: the
\* script read, the vision model call, the script write, the TTS call.
Outcomes == [read : BOOLEAN, gen : GenOutcomes, save : BOOLEAN, syn : SynOutcomes]

\* Outcomes of the encoder: enc is the first configuration whose write
\* succeeds (0: none does); left[j] tells whether the output file exists
\* after the failed write j, rm[j] whether os.remove succeeds on it (it is
\* only called on a file that exists; a file that was not removed is still
\* there after the next failed write); partial tells whether the output
\* file exists after the last of three failed writes.
Retries(enc) == (IF enc = 0 THEN 3 ELSE enc) - 1

EncOutcomes ==
    {e \in [enc : 0..3, partial : BOOLEAN,
            left : [1..2 -> BOOLEAN], rm : [1..2 -> BOOLEAN]] :
        /\ e.partial => e.enc = 0
        /\ \A j \in 1..2 : /\ j > Retries(e.enc) => ~e.left[j]
                           /\ ~e.left[j] => e.rm[j]
        /\ (Retries(e.enc) = 2 /\ ~e.rm[1]) => e.left[2]
        /\ (e.enc = 0 /\ ~e.rm[2]) => e.partial}

\* Number of failures in an outcome.
Bit(b) == IF b THEN 1 ELSE 0
OutcomeCost(o) == Bit(~o.read) + Bit(o.gen # GenText) + Bit(~o.save) + Bit(o.syn # "ok")

\* The external calls an iteration makes: a script file that exists is read;
\* a generated script is saved; callGen and called tell whether the vision
\* model and the TTS engine are called.
calls_made(sf, callGen, scr, called) ==
    (IF sf.ex THEN {"read"} ELSE {})
        \cup (IF callGen THEN {"gen"} ELSE {})
        \cup (IF callGen /\ Truthy(scr) THEN {"save"} ELSE {})
        \cup (IF called THEN {"syn"} ELSE {})

\* An outcome is only drawn for the calls that are made.
Canonical(o, used) ==
    /\ "read" \in used \/ o.read
    /\ "gen" \in used \/ o.gen = GenText
    /\ "save" \in used \/ o.save
    /\ "syn" \in used \/ o.syn = "ok"
EncCost(n, clipOk, e) == Cardinality((1..n) \ clipOk) + Bit(e.enc # 1)


\* ------------------------------------------------------------ slide loops
\* Variant of the iteration of process_presentation that calls the TTS
\* engine without testing that the engine is there.
process_presentation_iter_without_engine_test(sf, af, o, vm, tts, now) ==
    LET loaded == IF sf.ex THEN load_script_from_file(sf, o.read) ELSE None
        callGen == ~Truthy(loaded) /\ vm
        scr == IF callGen THEN generate_script_for_slide(o.gen) ELSE loaded
        sf1 == IF callGen /\ Truthy(scr)
               THEN save_script_to_file(sf, scr, o.save, now).file
               ELSE sf
        regen == should_regenerate_audio(sf1, af)
        syn == synthesize_speech_with_coqui(scr, af, o.syn, now)
    IN IF Truthy(scr)
       THEN IF regen
            THEN [script |-> sf1, audio |-> syn.file, entry |-> syn.ret,
                  gen |-> callGen, syn |-> syn.called,
                  fail |-> gen_failed(callGen, scr) \/ syn_failed(syn.called, o.syn),
                  used |-> calls_made(sf, callGen, scr, syn.called)]
            ELSE [script |-> sf1, audio |-> af, entry |-> af.ex,
                  gen |-> callGen, syn |-> FALSE,
                  fail |-> gen_failed(callGen, scr),
                  used |-> calls_made(sf, callGen, scr, FALSE)]
       ELSE [script |-> sf1, audio |-> af, entry |-> FALSE,
             gen |-> callGen, syn |-> FALSE,
             fail |-> gen_failed(callGen, scr),
             used |-> calls_made(sf, callGen, scr, FALSE)]

\* Variant of the iteration of process_presentation that calls the vision
\* model on every cache miss, without testing that the model is there.
process_presentation_iter_without_model_test(sf, af, o, vm, tts, now) ==
    LET loaded == IF sf.ex THEN load_script_from_file(sf, o.read) ELSE None
        callGen == ~Truthy(loaded)
        scr == IF callGen THEN generate_script_for_slide(o.gen) ELSE loaded
        sf1 == IF callGen /\ Truthy(scr)
               THEN save_script_to_file(sf, scr, o.save, now).file
               ELSE sf
        regen == should_regenerate_audio(sf1, af)
        syn == synthesize_speech_with_coqui(scr, af, o.syn, now)
    IN IF Truthy(scr) /\ tts
       THEN IF regen
            THEN [script |-> sf1, audio |-> syn.file, entry |-> syn.ret,
                  gen |-> callGen, syn |-> syn.called,
                  fail |-> gen_failed(callGen, scr) \/ syn_failed(syn.called, o.syn),
                  used |-> calls_made(sf, callGen, scr, syn.called)]
            ELSE [script |-> sf1, audio |-> af, entry |-> af.ex,
                  gen |-> callGen, syn |-> FALSE,
                  fail |-> gen_failed(callGen, scr),
                  used |-> calls_made(sf, callGen, scr, FALSE)]
       ELSE [script |-> sf1, audio |-> af, entry |-> FALSE,
             gen |-> callGen, syn |-> FALSE,
             fail |-> gen_failed(callGen, scr),
             used |-> calls_made(sf, callGen, scr, FALSE)]

\* One iteration of the slide loop of process_presentation for a slide whose
\* script file is sf and audio file is af.  entry is the value appended to
\* audio_files (TRUE for a path, FALSE for None).
process_presentation_iter(sf, af, o, vm, tts, now) ==
    LET loaded == IF sf.ex THEN load_script_from_file(sf, o.read) ELSE None
        callGen == ~Truthy(loaded) /\ vm
        scr == IF callGen THEN generate_script_for_slide(o.gen) ELSE loaded
        sf1 == IF callGen /\ Truthy(scr)
               THEN save_script_to_file(sf, scr, o.save, now).file
               ELSE sf
        regen == should_regenerate_audio(sf1, af)
        syn == synthesize_speech_with_coqui(scr, af, o.syn, now)
    IN IF Truthy(scr) /\ tts
       THEN IF regen
            THEN [script |-> sf1, audio |-> syn.file, entry |-> syn.ret,
                  gen |-> callGen, syn |-> syn.called,
                  fail |-> gen_failed(callGen, scr) \/ syn_failed(syn.called, o.syn),
                  used |-> calls_made(sf, callGen, scr, syn.called)]
            ELSE [script |-> sf1, audio |-> af, entry |-> af.ex,
                  gen |-> callGen, syn |-> FALSE,
                  fail |-> gen_failed(callGen, scr),
                  used |-> calls_made(sf, callGen, scr, FALSE)]
       ELSE [script |-> sf1, audio |-> af, entry |-> FALSE,
             gen |-> callGen, syn |-> FALSE,
                  fail |-> gen_failed(callGen, scr),
                  used |-> calls_made(sf, callGen, scr, FALSE)]

\* Variant of main's iteration that synthesizes whenever a script is there,
\* without asking the staleness policy.
main_iter_always_synthesize(sf, af, o, now) ==
    LET loaded == IF sf.ex THEN load_script_from_file(sf, o.read) ELSE None
        callGen == ~Truthy(loaded)
        scr == IF callGen THEN generate_script_for_slide(o.gen) ELSE loaded
        sf1 == IF callGen /\ Truthy(scr)
               THEN save_script_to_file(sf, scr, o.save, now).file
               ELSE sf
        syn == synthesize_speech_with_coqui(scr, af, o.syn, now)
    IN IF Truthy(scr)
       THEN [script |-> sf1, audio |-> syn.file, entry |-> syn.ret,
             count |-> syn.ret, gen |-> callGen, syn |-> syn.called,
             fail |-> gen_failed(callGen, scr) \/ syn_failed(syn.called, o.syn),
                  used |-> calls_made(sf, callGen, scr, syn.called)]
       ELSE [script |-> sf1, audio |-> af, entry |-> FALSE,
             count |-> FALSE, gen |-> callGen, syn |-> FALSE,
             fail |-> gen_failed(callGen, scr),
                  used |-> calls_made(sf, callGen, scr, FALSE)]

\* Variant of the iteration of main that counts every slide as a success.
main_iter_count_every_slide(sf, af, o, now) ==
    LET loaded == IF sf.ex THEN load_script_from_file(sf, o.read) ELSE None
        callGen == ~Truthy(loaded)
        scr == IF callGen THEN generate_script_for_slide(o.gen) ELSE loaded
        sf1 == IF callGen /\ Truthy(scr)
               THEN save_script_to_file(sf, scr, o.save, now).file
               ELSE sf
        regen == should_regenerate_audio(sf1, af)
        syn == synthesize_speech_with_coqui(scr, af, o.syn, now)
    IN IF Truthy(scr)
       THEN IF regen
            THEN [script |-> sf1, audio |-> syn.file, entry |-> syn.ret,
                  count |-> TRUE, gen |-> callGen, syn |-> syn.called,
                  fail |-> gen_failed(callGen, scr) \/ syn_failed(syn.called, o.syn),
                  used |-> calls_made(sf, callGen, scr, syn.called)]
            ELSE [script |-> sf1, audio |-> af, entry |-> TRUE,
                  count |-> TRUE, gen |-> callGen, syn |-> FALSE,
                  fail |-> gen_failed(callGen, scr),
                  used |-> calls_made(sf, callGen, scr, FALSE)]
       ELSE [script |-> sf1, audio |-> af, entry |-> FALSE,
             count |-> TRUE, gen |-> callGen, syn |-> FALSE,
                  fail |-> gen_failed(callGen, scr),
                  used |-> calls_made(sf, callGen, scr, FALSE)]

\* Variant of the iteration of main that calls the vision model whatever
\* the script file holds.
main_iter_always_generate(sf, af, o, now) ==
    LET loaded == IF sf.ex THEN load_script_from_file(sf, o.read) ELSE None
        callGen == TRUE
        scr == IF callGen THEN generate_script_for_slide(o.gen) ELSE loaded
        sf1 == IF callGen /\ Truthy(scr)
               THEN save_script_to_file(sf, scr, o.save, now).file
               ELSE sf
        regen == should_regenerate_audio(sf1, af)
        syn == synthesize_speech_with_coqui(scr, af, o.syn, now)
    IN IF Truthy(scr)
       THEN IF regen
            THEN [script |-> sf1, audio |-> syn.file, entry |-> syn.ret,
                  count |-> syn.ret, gen |-> callGen, syn |-> syn.called,
                  fail |-> gen_failed(callGen, scr) \/ syn_failed(syn.called, o.syn),
                  used |-> calls_made(sf, callGen, scr, syn.called)]
            ELSE [script |-> sf1, audio |-> af, entry |-> TRUE,
                  count |-> TRUE, gen |-> callGen, syn |-> FALSE,
                  fail |-> gen_failed(callGen, scr),
                  used |-> calls_made(sf, callGen, scr, FALSE)]
       ELSE [script |-> sf1, audio |-> af, entry |-> FALSE,
             count |-> FALSE, gen |-> callGen, syn |-> FALSE,
                  fail |-> gen_failed(callGen, scr),
                  used |-> calls_made(sf, callGen, scr, FALSE)]

\* One iteration of the slide loop of main (the command line tool).  count
\* tells whether successful_audio_count is incremented.
main_iter(sf, af, o, now) ==
    LET loaded == IF sf.ex THEN load_script_from_file(sf, o.read) ELSE None
        callGen == ~Truthy(loaded)
        scr == IF callGen THEN generate_script_for_slide(o.gen) ELSE loaded
        sf1 == IF callGen /\ Truthy(scr)
               THEN save_script_to_file(sf, scr, o.save, now).file
               ELSE sf
        regen == should_regenerate_audio(sf1, af)
        syn == synthesize_speech_with_coqui(scr, af, o.syn, now)
    IN IF Truthy(scr)
       THEN IF regen
            THEN [script |-> sf1, audio |-> syn.file, entry |-> syn.ret,
                  count |-> syn.ret, gen |-> callGen, syn |-> syn.called,
                  fail |-> gen_failed(callGen, scr) \/ syn_failed(syn.called, o.syn),
                  used |-> calls_made(sf, callGen, scr, syn.called)]
            ELSE [script |-> sf1, audio |-> af, entry |-> TRUE,
                  count |-> TRUE, gen |-> callGen, syn |-> FALSE,
                  fail |-> gen_failed(callGen, scr),
                  used |-> calls_made(sf, callGen, scr, FALSE)]
       ELSE [script |-> sf1, audio |-> af, entry |-> FALSE,
             count |-> FALSE, gen |-> callGen, syn |-> FALSE,
                  fail |-> gen_failed(callGen, scr),
                  used |-> calls_made(sf, callGen, scr, FALSE)]

\* Variant of the regeneration iteration that asks the staleness policy
\* before it synthesizes an edited slide.
regenerate_iter_if_stale(sf, af, slide_num, upd, o, tts, now) ==
    IF slide_num \in upd
    THEN LET scr == load_script_from_file(sf, o.read)
             syn == synthesize_speech_with_coqui(scr, af, o.syn, now)
         IN IF Truthy(scr) /\ tts
            THEN IF should_regenerate_audio(sf, af)
                 THEN [audio |-> syn.file, entry |-> syn.ret, syn |-> syn.called,
                       fail |-> syn_failed(syn.called, o.syn),
                       used |-> calls_made(sf, FALSE, scr, syn.called)]
                 ELSE [audio |-> af, entry |-> af.ex, syn |-> FALSE, fail |-> FALSE,
                       used |-> calls_made(sf, FALSE, scr, FALSE)]
            ELSE [audio |-> af, entry |-> FALSE, syn |-> FALSE, fail |-> FALSE,
                  used |-> calls_made(sf, FALSE, scr, FALSE)]
    ELSE [audio |-> af, entry |-> af.ex, syn |-> FALSE, fail |-> FALSE,
          used |-> {}]

\* Variant of the regeneration iteration that regenerates every slide.
regenerate_iter_every_slide(sf, af, slide_num, upd, o, tts, now) ==
    LET scr == load_script_from_file(sf, o.read)
        syn == synthesize_speech_with_coqui(scr, af, o.syn, now)
    IN IF Truthy(scr) /\ tts
       THEN [audio |-> syn.file, entry |-> syn.ret, syn |-> syn.called,
             fail |-> syn_failed(syn.called, o.syn),
                  used |-> calls_made(sf, FALSE, scr, syn.called)]
       ELSE [audio |-> af, entry |-> FALSE, syn |-> FALSE, fail |-> FALSE,
                  used |-> calls_made(sf, FALSE, scr, FALSE)]

\* One iteration of the loop of regenerate_audio_and_video.
regenerate_iter(sf, af, slide_num, upd, o, tts, now) ==
    IF slide_num \in upd
    THEN LET scr == load_script_from_file(sf, o.read)
             syn == synthesize_speech_with_coqui(scr, af, o.syn, now)
         IN IF Truthy(scr) /\ tts
            THEN [audio |-> syn.file, entry |-> syn.ret, syn |-> syn.called,
                  fail |-> syn_failed(syn.called, o.syn),
                  used |-> calls_made(sf, FALSE, scr, syn.called)]
            ELSE [audio |-> af, entry |-> FALSE, syn |-> FALSE, fail |-> FALSE,
                  used |-> calls_made(sf, FALSE, scr, FALSE)]
    ELSE [audio |-> af, entry |-> af.ex, syn |-> FALSE, fail |-> FALSE,
          used |-> {}]

\* The whole slide loop of process_presentation over slides 1..n with the
\* outcomes os[k] for slide k: iteration k only touches slide k's files.
process_presentation_loop(scripts, audios, n, os, vm, tts, now) ==
    [k \in 1..n |-> process_presentation_iter(scripts[k], audios[k], os[k],
                                               vm, tts, now)]

\* The whole loop of regenerate_audio_and_video, with the outcomes os[k] for
\* slide k.
regenerate_loop(scripts, audios, n, upd, os, tts, now) ==
    [k \in 1..n |-> regenerate_iter(scripts[k], audios[k], k, upd, os[k],
                                     tts, now)]

\* -------------------------------------------------------- video assembler
NoVideo == [ex |-> FALSE, complete |-> FALSE]

\* The three write_videofile configurations, in the order they are tried.
Configs == <<"libx264_aac", "libx264_ultrafast", "mpeg4">>

\* Variants of the clip list: the audio file on disk is used whatever the
\* audio_files entry says; the clips are collected last slide first.
clip_list_ignore_entry(imgs, auds, afiles, clipOk) ==
    SelectSeq([k \in 1..Len(afiles) |-> k],
              LAMBDA k : imgs[k] /\ auds[k].ex /\ k \in clipOk)

clip_list_reversed(imgs, auds, afiles, clipOk) ==
    SelectSeq([k \in 1..Len(afiles) |-> Len(afiles) + 1 - k],
              LAMBDA k : imgs[k] /\ afiles[k] /\ auds[k].ex /\ k \in clipOk)

\* Slides that get a clip: image on disk, audio entry not None and on disk,
\* and the clip objects could be built (k \in clipOk).
clip_list(imgs, auds, afiles, clipOk) ==
    SelectSeq([k \in 1..Len(afiles) |-> k],
              LAMBDA k : imgs[k] /\ afiles[k] /\ auds[k].ex /\ k \in clipOk)

\* Slides that pass both existence checks and whose clip raises while it is
\* built: they are reported and left out.
clip_error_set(imgs, auds, afiles, clipOk) ==
    {k \in 1..Len(afiles) : imgs[k] /\ afiles[k] /\ auds[k].ex /\ k \notin clipOk}

\* What the cleanup before the retry that follows the failed write j finds
\* and does: no file, the file removed, or the file kept because os.remove
\* raised OSError, which is ignored.
cleanup(e, j) ==
    IF ~e.left[j] THEN "absent" ELSE IF e.rm[j] THEN "removed" ELSE "kept"

\* Variant of create_video_with_moviepy that goes through the three
\* configurations whatever the result of the writes.
create_video_with_moviepy_no_early_stop(imgs, auds, afiles, clipOk, e, old) ==
    LET cl == clip_list(imgs, auds, afiles, clipOk)
        errs == clip_error_set(imgs, auds, afiles, clipOk)
    IN IF cl = <<>>
       THEN [video |-> old, clips |-> cl, errors |-> errs,
             attempts |-> <<>>, removals |-> <<>>]
       ELSE [video |-> [ex |-> e.enc # 0 \/ e.partial, complete |-> e.enc # 0],
             clips |-> cl, errors |-> errs,
             attempts |-> Configs,
             removals |-> [j \in 1..2 |-> cleanup(e, j)]]

\* create_video_with_moviepy.  Without clips it returns before it writes
\* anything.  Otherwise the configurations are tried in order until a write
\* succeeds; the file of a failed first or second write is removed, if it
\* exists, before the retry; after the third failure nothing is removed.
create_video_with_moviepy(imgs, auds, afiles, clipOk, e, old) ==
    LET cl == clip_list(imgs, auds, afiles, clipOk)
        errs == clip_error_set(imgs, auds, afiles, clipOk)
    IN IF cl = <<>>
       THEN [video |-> old, clips |-> cl, errors |-> errs,
             attempts |-> <<>>, removals |-> <<>>]
       ELSE IF e.enc = 0
            THEN [video |-> [ex |-> e.partial, complete |-> FALSE],
                  clips |-> cl, errors |-> errs,
                  attempts |-> Configs,
                  removals |-> [j \in 1..2 |-> cleanup(e, j)]]
            ELSE [video |-> [ex |-> TRUE, complete |-> TRUE],
                  clips |-> cl, errors |-> errs,
                  attempts |-> SubSeq(Configs, 1, e.enc),
                  removals |-> [j \in 1..(e.enc - 1) |-> cleanup(e, j)]]

\* ------------------------------------------------------------------ Init
Init ==
    /\ clock = 0
    /\ image = [i \in Slides |-> FALSE]
    /\ script = [i \in Slides |-> NoScript]
    /\ audio = [i \in Slides |-> NoAudio]
    /\ video = NoVideo
    /\ vision_model \in BOOLEAN
    /\ tts_engine \in BOOLEAN
    /\ status = "nojob"
    /\ progress = 0
    /\ background_tasks = <<>>
    /\ response = "none"
    /\ task = "none"
    /\ pc = "idle"
    /\ total = 0
    /\ audio_files = <<>>
    /\ successful_audio_count = 0
    /\ updated_slides = {}
    /\ clips = <<>>
    /\ clip_errors = {}
    /\ attempts = <<>>
    /\ removals = <<>>
    /\ genCalls = {}
    /\ told = {}
    /\ synCalls = {}
    /\ failed = {}
    /\ faults = 0

\* The local variables of a background task, as they are when no task runs.
NoLocals ==
    /\ total' = 0
    /\ audio_files' = <<>>
    /\ successful_audio_count' = 0
    /\ updated_slides' = {}
    /\ clips' = <<>>
    /\ clip_errors' = {}
    /\ attempts' = <<>>
    /\ removals' = <<>>
    /\ genCalls' = {}
    /\ told' = {}
    /\ synCalls' = {}
    /\ failed' = {}

locals == <<total, audio_files, successful_audio_count, updated_slides, clips,
            clip_errors, attempts, removals, genCalls, told, synCalls, failed>>

\* A step that injects c external failures.
Inject(c) == faults + c <= MaxFaults /\ faults' = faults + c

\* Time passes on the filesystem clock.
Tick ==
    /\ clock < MaxTime
    /\ clock' = clock + 1
    /\ UNCHANGED <<http, faults, store, config, successful_audio_count,
                   job, task, pc, total, audio_files,
                   updated_slides, clips, attempts, removals, clip_errors, genCalls, told, synCalls, failed>>

\* ------------------------------------------------------- backend handlers
\* POST /upload: the job record is created and process_presentation is
\* added as a background task.
upload_presentation ==
    /\ status = "nojob"
    /\ status' = "pending"
    /\ progress' = 0
    /\ background_tasks' = Append(background_tasks,
                                  [fn |-> "process", slides |-> {}])
    /\ response' = "200"
    /\ UNCHANGED <<task, pc, faults, clock, store, config, successful_audio_count,
                   total, audio_files, updated_slides,
                   clips, attempts, removals, clip_errors, genCalls, told, synCalls, failed>>

\* process_presentation begins: the job is marked processing.
process_presentation_start ==
    /\ task = "none" /\ background_tasks # <<>>
    /\ Head(background_tasks).fn = "process"
    /\ background_tasks' = Tail(background_tasks)
    /\ task' = "process"
    /\ status' = "processing"
    /\ progress' = 10
    /\ pc' = "extract"
    /\ UNCHANGED <<response, faults, clock, store, config, locals>>

\* Variant of the extraction step that marks the job completed when no
\* slide image was extracted.
process_presentation_extract_ignores_empty ==
    /\ task = "process" /\ pc = "extract"
    /\ \E ext \in {"ok", "none", "raise"}, n \in 0..MaxSlides :
         IF ext = "ok" /\ n > 0
         THEN /\ image' = [i \in Slides |-> i <= n]
              /\ status' = "processing"
              /\ progress' = 20
              /\ total' = n
              /\ pc' = "loop"
              /\ task' = task
         ELSE /\ status' = "completed"
              /\ progress' = 10
              /\ pc' = "idle"
              /\ task' = "none"
              /\ UNCHANGED <<image, total>>
    /\ UNCHANGED <<http, faults, clock, script, audio, video, config, successful_audio_count,
                   audio_files,
                   updated_slides, clips, attempts, removals, clip_errors, genCalls, told, synCalls, failed>>

\* process_presentation extracts the slides: the rasterizer returns None,
\* raises, or writes n images.
process_presentation_extract ==
    /\ task = "process" /\ pc = "extract"
    /\ \E ext \in {"ok", "none", "raise"}, n \in 0..MaxSlides :
         IF ext = "ok" /\ n > 0
         THEN /\ image' = [i \in Slides |-> i <= n]
              /\ status' = "processing"
              /\ progress' = 20
              /\ total' = n
              /\ pc' = "loop"
              /\ task' = task
         ELSE /\ status' = "failed"
              /\ progress' = 10
              /\ pc' = "idle"
              /\ task' = "none"
              /\ UNCHANGED <<image, total>>
    /\ UNCHANGED <<http, faults, clock, script, audio, video, config, successful_audio_count,
                   audio_files,
                   updated_slides, clips, attempts, removals, clip_errors, genCalls, told, synCalls, failed>>

\* Variant of the progress of the slide loop without the division by the
\* number of slides.
slide_progress_unscaled(i, n) == 20 + (60 * i)

\* job["progress"] at iteration i (from 0) of the slide loop of
\* process_presentation over n slides, and of the loop of
\* regenerate_audio_and_video.
slide_progress(i, n) == 20 + ((60 * i) \div n)

regenerate_progress(i, n) == 10 + ((70 * i) \div n)

\* One iteration of the slide loop of process_presentation.
process_presentation_slide ==
    /\ task = "process" /\ pc = "loop" /\ Len(audio_files) < total
    /\ LET i == Len(audio_files)
           slide_num == i + 1
       IN \E o \in Outcomes :
            LET r == process_presentation_iter(script[slide_num], audio[slide_num],
                                               o, vision_model, tts_engine, clock)
            IN /\ Canonical(o, r.used)
               /\ Inject(OutcomeCost(o))
               /\ progress' = slide_progress(i, total)
               /\ script' = [script EXCEPT ![slide_num] = r.script]
               /\ audio' = [audio EXCEPT ![slide_num] = r.audio]
               /\ audio_files' = Append(audio_files, r.entry)
               /\ genCalls' = IF r.gen THEN genCalls \cup {slide_num} ELSE genCalls
               /\ told' = IF r.gen
                        THEN told \cup {<<slide_num, context_prompt(slide_num, total)>>}
                        ELSE told
               /\ synCalls' = IF r.syn THEN synCalls \cup {slide_num} ELSE synCalls
               /\ failed' = IF r.fail THEN failed \cup {slide_num} ELSE failed
    /\ UNCHANGED <<http, clock, image, video, config, successful_audio_count,
                   status, task, pc, total,
                   updated_slides, clips, attempts, removals, clip_errors>>

\* process_presentation calls the assembler.  concat tells whether
\* concatenate_videoclips returns; when it raises, the exception reaches the
\* handler of the task, which marks the job failed.
process_presentation_video ==
    /\ task = "process" /\ pc = "loop" /\ Len(audio_files) = total
    /\ \E clipOk \in SUBSET (1..total), e \in EncOutcomes, concat \in BOOLEAN :
         LET r == create_video_with_moviepy(image, audio, audio_files,
                                            clipOk, e, video)
         IN /\ (1..total) \ clipOk = r.errors
            /\ r.clips # <<>> \/ (e.enc = 1 /\ concat)
            /\ concat \/ e.enc = 1
            /\ Inject(EncCost(total, clipOk, e) + Bit(~concat))
            /\ IF concat
               THEN /\ video' = r.video
                    /\ clips' = r.clips
                    /\ clip_errors' = r.errors
                    /\ attempts' = r.attempts
                    /\ removals' = r.removals
                    /\ pc' = "assembled"
                    /\ UNCHANGED <<successful_audio_count, status, task, total,
                                   audio_files, updated_slides, genCalls, told,
                                   synCalls, failed>>
               ELSE /\ status' = "failed"
                    /\ task' = "none"
                    /\ pc' = "idle"
                    /\ NoLocals
                    /\ video' = video
    /\ progress' = 90
    /\ UNCHANGED <<http, clock, image, script, audio, config>>

\* Variant of the end of process_presentation that leaves the status as it
\* is.
process_presentation_complete_keeps_status ==
    /\ task = "process" /\ pc = "assembled"
    /\ progress' = 100
    /\ task' = "none"
    /\ pc' = "idle"
    /\ NoLocals
    /\ UNCHANGED <<http, status, faults, clock, store, config>>

\* The end of process_presentation: the job is marked completed.
process_presentation_complete ==
    /\ task = "process" /\ pc = "assembled"
    /\ status' = "completed"
    /\ progress' = 100
    /\ task' = "none"
    /\ pc' = "idle"
    /\ NoLocals
    /\ UNCHANGED <<http, faults, clock, store, config>>

\* PUT /scripts: a batch maps slide numbers to new texts (None: the slide
\* is not in the batch); w[k] tells whether the write of slide k's script
\* succeeds.
Batches == [Slides -> UserTexts \cup {None}]
Writes(b) == {w \in [Slides -> BOOLEAN] : \A k \in Slides : b[k] = None => w[k]}

\* Variants of the status check of update_scripts: a failed job, a job that
\* is being processed, a job that waits for its task can be edited too.
update_scripts_allowed_failed(st) == st \in {"completed", "failed"}

update_scripts_allowed_processing(st) == st \in {"completed", "processing"}

update_scripts_allowed_pending(st) == st \in {"completed", "pending"}

\* The status check of update_scripts.
update_scripts_allowed(st) == st \in {"completed"}

update_scripts ==
    IF status = "nojob"
    THEN response' = "404"
         /\ UNCHANGED <<background_tasks, faults, clock, store, config, job,
                        task, pc, locals>>
    ELSE IF ~update_scripts_allowed(status)
    THEN response' = "400"
         /\ UNCHANGED <<background_tasks, faults, clock, store, config, job,
                        task, pc, locals>>
    ELSE
    /\ \E b \in Batches : \E w \in Writes(b) :
         LET updated_scripts == {k \in Slides : b[k] # None /\ w[k]}
         IN /\ \E k \in Slides : b[k] # None
            /\ Inject(Cardinality({k \in Slides : ~w[k]}))
            /\ script' = [k \in Slides |->
                            IF b[k] # None
                            THEN save_script_to_file(script[k], b[k], w[k], clock).file
                            ELSE script[k]]
            /\ IF updated_scripts # {}
               THEN /\ status' = "processing"
                    /\ progress' = 0
                    /\ background_tasks' =
                           Append(background_tasks,
                                  [fn |-> "regen", slides |-> updated_scripts])
               ELSE UNCHANGED <<status, progress, background_tasks>>
    /\ response' = "200"
    /\ UNCHANGED <<clock, image, audio, video, config, task, pc, locals>>

\* GET /scripts: the status check, and the list that is returned, built
\* from slide k on until the first slide without a script file.  reads[k]
\* tells whether the read of slide k's script succeeds; a script that
\* cannot be read is listed with an empty text.
get_scripts_allowed(st) == st \in {"processing", "completed"}

RECURSIVE get_scripts(_, _, _)
get_scripts(scripts, reads, k) ==
    IF k \in Slides /\ scripts[k].ex
    THEN LET script_text == load_script_from_file(scripts[k], reads[k])
         IN <<[slide_number |-> k,
               script |-> IF Truthy(script_text) THEN script_text ELSE ""]>>
                \o get_scripts(scripts, reads, k + 1)
    ELSE <<>>

\* Number of slide images found by probing slide_1.png, slide_2.png, ...
\* until the first missing one.
RECURSIVE probe_images(_, _)
\* Variant of the probe that stops after the first image.
probe_images_first_only(imgs, k) ==
    IF k \in Slides /\ imgs[k] THEN k ELSE k - 1

probe_images(imgs, k) ==
    IF k \in Slides /\ imgs[k] THEN probe_images(imgs, k + 1) ELSE k - 1

\* regenerate_audio_and_video up to its loop.
regenerate_start ==
    /\ task = "none" /\ background_tasks # <<>>
    /\ Head(background_tasks).fn = "regen"
    /\ background_tasks' = Tail(background_tasks)
    /\ task' = "regen"
    /\ updated_slides' = Head(background_tasks).slides
    /\ total' = probe_images(image, 1)
    /\ pc' = "loop"
    /\ UNCHANGED <<response, faults, clock, store, config, successful_audio_count,
                   job, audio_files,
                   clips, attempts, removals, clip_errors, genCalls, told, synCalls, failed>>

\* One iteration of the loop of regenerate_audio_and_video.
regenerate_slide ==
    /\ task = "regen" /\ pc = "loop" /\ Len(audio_files) < total
    /\ LET i == Len(audio_files)
           slide_num == i + 1
       IN \E o \in Outcomes :
            LET r == regenerate_iter(script[slide_num], audio[slide_num], slide_num,
                                     updated_slides, o, tts_engine, clock)
            IN /\ Canonical(o, r.used)
               /\ Inject(OutcomeCost(o))
               /\ progress' = regenerate_progress(i, total)
               /\ audio' = [audio EXCEPT ![slide_num] = r.audio]
               /\ audio_files' = Append(audio_files, r.entry)
               /\ synCalls' = IF r.syn THEN synCalls \cup {slide_num} ELSE synCalls
               /\ failed' = IF r.fail THEN failed \cup {slide_num} ELSE failed
    /\ UNCHANGED <<http, clock, image, script, video, config, successful_audio_count,
                   status, task, pc, total,
                   updated_slides, clips, attempts, removals, clip_errors, genCalls, told>>

\* regenerate_audio_and_video calls the assembler.  concat tells whether
\* concatenate_videoclips returns; when it raises, the exception reaches the
\* handler of the task, which marks the job failed.
regenerate_video ==
    /\ task = "regen" /\ pc = "loop" /\ Len(audio_files) = total
    /\ \E clipOk \in SUBSET (1..total), e \in EncOutcomes, concat \in BOOLEAN :
         LET r == create_video_with_moviepy(image, audio, audio_files,
                                            clipOk, e, video)
         IN /\ (1..total) \ clipOk = r.errors
            /\ r.clips # <<>> \/ (e.enc = 1 /\ concat)
            /\ concat \/ e.enc = 1
            /\ Inject(EncCost(total, clipOk, e) + Bit(~concat))
            /\ IF concat
               THEN /\ video' = r.video
                    /\ clips' = r.clips
                    /\ clip_errors' = r.errors
                    /\ attempts' = r.attempts
                    /\ removals' = r.removals
                    /\ pc' = "assembled"
                    /\ UNCHANGED <<successful_audio_count, status, task, total,
                                   audio_files, updated_slides, genCalls, told,
                                   synCalls, failed>>
               ELSE /\ status' = "failed"
                    /\ task' = "none"
                    /\ pc' = "idle"
                    /\ NoLocals
                    /\ video' = video
    /\ progress' = 90
    /\ UNCHANGED <<http, clock, image, script, audio, config>>

\* The end of regenerate_audio_and_video.
regenerate_complete ==
    /\ task = "regen" /\ pc = "assembled"
    /\ status' = "completed"
    /\ progress' = 100
    /\ task' = "none"
    /\ pc' = "idle"
    /\ NoLocals
    /\ UNCHANGED <<http, faults, clock, store, config>>

\* ------------------------------------------------------ command line tool
\* main up to its slide loop.  The presentation is rasterized again on every
\* run; a rerun is of the same document, so it yields the same slide count.
main_start ==
    /\ task = "none" /\ status = "nojob"
    /\ \E ext \in {"ok", "none", "raise"}, n \in 0..MaxSlides :
         /\ ext = "ok" /\ n > 0
         /\ probe_images(image, 1) \in {0, n}
         /\ image' = [i \in Slides |-> i <= n]
         /\ total' = n
    /\ task' = "main"
    /\ pc' = "loop"
    /\ UNCHANGED <<http, faults, clock, script, audio, video, config, job, audio_files,
                   successful_audio_count, updated_slides, clips, attempts, removals, clip_errors,
                   genCalls, told, synCalls, failed>>

\* One iteration of the slide loop of main.
main_slide ==
    /\ task = "main" /\ pc = "loop" /\ Len(audio_files) < total
    /\ LET slide_num == Len(audio_files) + 1
       IN \E o \in Outcomes :
            LET r == main_iter(script[slide_num], audio[slide_num], o, clock)
            IN /\ Canonical(o, r.used)
               /\ Inject(OutcomeCost(o))
               /\ script' = [script EXCEPT ![slide_num] = r.script]
               /\ audio' = [audio EXCEPT ![slide_num] = r.audio]
               /\ audio_files' = Append(audio_files, r.entry)
               /\ successful_audio_count' =
                      IF r.count THEN successful_audio_count + 1
                                 ELSE successful_audio_count
               /\ genCalls' = IF r.gen THEN genCalls \cup {slide_num} ELSE genCalls
               /\ told' = IF r.gen
                        THEN told \cup {<<slide_num, context_prompt(slide_num, total)>>}
                        ELSE told
               /\ synCalls' = IF r.syn THEN synCalls \cup {slide_num} ELSE synCalls
               /\ failed' = IF r.fail THEN failed \cup {slide_num} ELSE failed
    /\ UNCHANGED <<http, clock, image, video, config, job, task, pc, total,
                   updated_slides, clips, attempts, removals, clip_errors>>

\* After the loop main exits with failure when no audio was counted, and
\* calls the assembler otherwise; when concatenate_videoclips raises, the
\* exception ends the process.
main_video ==
    /\ task = "main" /\ pc = "loop" /\ Len(audio_files) = total
    /\ IF successful_audio_count = 0
       THEN /\ pc' = "assembled"
            /\ UNCHANGED <<video, clips, attempts, removals, clip_errors, faults,
                           task, total, audio_files, successful_audio_count,
                           updated_slides, genCalls, told, synCalls, failed>>
       ELSE \E clipOk \in SUBSET (1..total), e \in EncOutcomes, concat \in BOOLEAN :
              LET r == create_video_with_moviepy(image, audio, audio_files,
                                                 clipOk, e, video)
              IN /\ (1..total) \ clipOk = r.errors
                 /\ r.clips # <<>> \/ (e.enc = 1 /\ concat)
                 /\ concat \/ e.enc = 1
                 /\ Inject(EncCost(total, clipOk, e) + Bit(~concat))
                 /\ IF concat
                    THEN /\ video' = r.video
                         /\ clips' = r.clips
                         /\ clip_errors' = r.errors
                         /\ attempts' = r.attempts
                         /\ removals' = r.removals
                         /\ pc' = "assembled"
                         /\ UNCHANGED <<task, total, audio_files,
                                        successful_audio_count, updated_slides,
                                        genCalls, told, synCalls, failed>>
                    ELSE /\ task' = "none"
                         /\ pc' = "idle"
                         /\ NoLocals
                         /\ video' = video
    /\ UNCHANGED <<http, clock, image, script, audio, config, job>>

\* The process ends.
main_exit ==
    /\ task = "main" /\ pc = "assembled"
    /\ task' = "none"
    /\ pc' = "idle"
    /\ NoLocals
    /\ UNCHANGED <<http, faults, clock, store, config, job>>

\* Between two runs the user edits a script file in the temp folder.
user_edit_script ==
    /\ task = "none" /\ status = "nojob"
    /\ \E k \in Slides, t \in UserTexts :
         script' = [script EXCEPT ![k] = [ex |-> TRUE, text |-> t, mtime |-> clock]]
    /\ UNCHANGED <<http, faults, clock, image, audio, video, config, job, task, pc, locals>>

\* Between two runs the user puts an audio file of their own in the temp folder.
user_place_audio ==
    /\ task = "none" /\ status = "nojob"
    /\ \E k \in Slides :
         audio' = [audio EXCEPT ![k] = [ex |-> TRUE, mtime |-> clock]]
    /\ UNCHANGED <<http, faults, clock, image, script, video, config, job, task, pc, locals>>

Next ==
    \/ Tick
    \/ upload_presentation
    \/ process_presentation_start
    \/ process_presentation_extract
    \/ process_presentation_slide
    \/ process_presentation_video
    \/ process_presentation_complete
    \/ update_scripts
    \/ regenerate_start
    \/ regenerate_slide
    \/ regenerate_video
    \/ regenerate_complete

Spec == Init /\ [][Next]_vars

\* The steps of the background tasks.  The event loop starts every task
\* that was added, and every call a task makes returns, so a task that can
\* take a step eventually takes one.
TaskStep ==
    \/ process_presentation_start
    \/ process_presentation_extract
    \/ process_presentation_slide
    \/ process_presentation_video
    \/ process_presentation_complete
    \/ regenerate_start
    \/ regenerate_slide
    \/ regenerate_video
    \/ regenerate_complete

SpecFair == Spec /\ WF_vars(TaskStep)

\* The command line tool: main exits at start-up unless both the vision
\* model and the TTS engine are available.
InitCLI == Init /\ vision_model /\ tts_engine

NextCLI ==
    \/ Tick
    \/ main_start
    \/ main_slide
    \/ main_video
    \/ main_exit
    \/ user_edit_script
    \/ user_place_audio

SpecCLI == InitCLI /\ [][NextCLI]_vars

TypeOK ==
    /\ clock \in Times
    /\ status \in {"nojob", "pending", "processing", "completed", "failed"}
    /\ response \in {"none", "200", "400", "404"}
    /\ Len(background_tasks) <= 2
    /\ Len(audio_files) <= total

\* ------------------------------------------------------------ properties
\* Slides whose iteration the running loop has done.
Done == 1..Len(audio_files)

\* The slides of a clip list.
Range(q) == {q[j] : j \in 1..Len(q)}

\* Audio af is fresh for script sf: it exists, and there is no script file
\* or the script is not newer than the audio.
Fresh(sf, af) == af.ex /\ (~sf.ex \/ sf.mtime <= af.mtime)

\* C1: whenever a slide has no audio file, should_regenerate_audio answers
\* true, whether the slide's script file is absent or present with any
\* timestamp.
C1_MissingAudioRegenerates ==
    \A i \in Slides :
        ~audio[i].ex => should_regenerate_audio(script[i], audio[i])

\* The loop asked the policy for a slide without audio, called the TTS
\* engine, and the call failed: the script is there, the audio still is not.
C1_Witness ==
    /\ task = "main"
    /\ \E i \in Done : i \in synCalls /\ script[i].ex /\ ~audio[i].ex

\* C2: whenever a slide has an audio file and no script file,
\* should_regenerate_audio answers false.
C2_UntrackedAudioKept ==
    \A i \in Slides :
        (audio[i].ex /\ ~script[i].ex)
            => ~should_regenerate_audio(script[i], audio[i])

\* The loop kept the audio of a slide that has no script file (the generated
\* script could not be saved): no TTS call and the audio is in the list.
C2_Witness ==
    /\ task = "main"
    /\ \E i \in Done :
         /\ audio[i].ex /\ ~script[i].ex
         /\ i \in genCalls /\ i \notin synCalls /\ audio_files[i]

\* C3: when a slide has both a script file and an audio file,
\* should_regenerate_audio answers true exactly when the script's timestamp
\* is strictly greater than the audio's.
C3_StrictlyNewerScript ==
    \A i \in Slides :
        (audio[i].ex /\ script[i].ex)
            => (should_regenerate_audio(script[i], audio[i])
                    <=> script[i].mtime > audio[i].mtime)

\* Both answers were given in one run: a slide whose script is newer than
\* its audio was sent to the TTS engine (which failed, so the old audio is
\* still there), and a slide whose script has the audio's timestamp was not.
C3_Witness ==
    /\ task = "main"
    /\ \E i \in Done :
         /\ i \in synCalls /\ script[i].ex /\ audio[i].ex
         /\ script[i].mtime > audio[i].mtime
    /\ \E i \in Done :
         /\ i \notin synCalls /\ script[i].ex /\ audio[i].ex
         /\ script[i].mtime = audio[i].mtime /\ audio_files[i]

\* C4: while regenerate_audio_and_video runs for the edited slides
\* updated_slides, no step changes the audio file of a slide outside
\* updated_slides nor calls the TTS engine for it; and the script edit that
\* starts the regeneration changes no audio file.
C4_OtherAudioUntouched ==
    [][/\ task = "regen" =>
            \A j \in Slides \ updated_slides :
                audio'[j] = audio[j] /\ j \notin synCalls'
       /\ (Len(background_tasks') > Len(background_tasks)) => audio' = audio]_vars

\* A regeneration for slide 2 alone has rewritten slide 2's audio at a later
\* time; slide 1's audio is the one of the first run.
C4_Witness ==
    /\ task = "regen" /\ pc = "assembled"
    /\ updated_slides = {2} /\ synCalls = {2}
    /\ audio[1].ex /\ audio[2].ex /\ audio[2].mtime > audio[1].mtime

\* All external calls of an iteration succeed.
NominalOutcome == [read |-> TRUE, gen |-> GenText, save |-> TRUE, syn |-> "ok"]

\* The audio_files list and the audio files a loop result r leaves behind.
Entries(r) == [k \in DOMAIN r |-> r[k].entry]
AudioAfter(r) == [k \in Slides |-> IF k \in DOMAIN r THEN r[k].audio ELSE audio[k]]

\* C5: when a regeneration for the just written scripts updated_slides is
\* about to start, it yields the same audio_files list and the same clip
\* list as the slide loop of process_presentation run on the same files,
\* with the same external outcomes: here even when every external call of
\* both runs succeeds.
C5_SelectiveEqualsFull ==
    (/\ task = "none" /\ background_tasks # <<>>
     /\ Head(background_tasks).fn = "regen") =>
        LET n == probe_images(image, 1)
            S == Head(background_tasks).slides
        IN \A os \in [1..n -> {NominalOutcome}] :
             LET full == process_presentation_loop(script, audio, n, os,
                                                   vision_model, tts_engine, clock)
                 sel == regenerate_loop(script, audio, n, S, os,
                                        tts_engine, clock)
             IN /\ Entries(sel) = Entries(full)
                /\ clip_list(image, AudioAfter(sel), Entries(sel), 1..n)
                     = clip_list(image, AudioAfter(full), Entries(full), 1..n)

\* C6: every audio file that the assembler has just put in a clip is fresh
\* for its slide.
C6_ClipsFresh ==
    pc = "assembled" =>
        \A k \in Range(clips) : Fresh(script[k], audio[k])

\* C7 as stated: at the end of a run of main that leaves a script file and
\* an audio file for every slide, a second run in which every external call
\* would succeed calls neither the vision model nor the TTS engine and
\* builds the same audio_files list.
C7_NoCallsOnRerun ==
    (/\ task = "main" /\ pc = "assembled"
     /\ \A k \in 1..total : script[k].ex /\ audio[k].ex)
        => \A k \in 1..total :
             LET r == main_iter(script[k], audio[k], NominalOutcome, clock)
             IN ~r.gen /\ ~r.syn /\ r.entry = audio_files[k]

\* C7 amended: at the end of a run of main that leaves, for every slide, a
\* script file with a non-blank text and an audio file that is fresh for it,
\* a second run whose script reads succeed calls neither the vision model
\* nor the TTS engine, whatever these calls would give and whenever it runs,
\* leaves the files as they are, and lists the audio of every slide, which
\* is the first run's list wherever that run listed the slide's audio; the
\* slide loop of process_presentation does the same on these files.
C7_NoCallsOnRerunWhenFresh ==
    (/\ task = "main" /\ pc = "assembled"
     /\ \A k \in 1..total :
          /\ script[k].ex /\ Truthy(strip(script[k].text))
          /\ Fresh(script[k], audio[k]))
        => \A k \in 1..total, now \in Times :
             \A o \in {x \in Outcomes : x.read} :
               LET r == main_iter(script[k], audio[k], o, now)
                   b == process_presentation_iter(script[k], audio[k], o,
                                                  TRUE, TRUE, now)
               IN /\ ~r.gen /\ ~r.syn /\ r.entry
                  /\ audio_files[k] => r.entry = audio_files[k]
                  /\ r.script = script[k] /\ r.audio = audio[k]
                  /\ ~b.gen /\ ~b.syn /\ b.entry
                  /\ b.script = script[k] /\ b.audio = audio[k]

\* The end of a rerun over the scripts an earlier run generated: every slide
\* has its generated script and fresh audio, and this run made no call.
C7_Witness ==
    /\ task = "main" /\ pc = "assembled" /\ total >= 2
    /\ genCalls = {} /\ synCalls = {}
    /\ \A k \in 1..total :
         /\ script[k].ex /\ script[k].text = GenText
         /\ Fresh(script[k], audio[k]) /\ audio_files[k]

\* Slides of the finished loop whose image is on disk and whose audio_files
\* entry is a file on disk.
BothPresent == {k \in 1..total : image[k] /\ audio_files[k] /\ audio[k].ex}

\* C8 as stated: the number of clips equals the number of slides whose image
\* and audio are both present.
C8_ClipCountIsBothPresent ==
    pc = "assembled" => Len(clips) = Cardinality(BothPresent)

\* C8 amended: the number of clips equals the number of slides whose image
\* and audio are both present and whose clip could be built, and a slide
\* whose audio is absent or failed has no clip.
C8_ClipCount ==
    pc = "assembled" =>
        /\ Len(clips) = Cardinality(BothPresent \ clip_errors)
        /\ \A k \in 1..total :
             ~(audio_files[k] /\ audio[k].ex) => k \notin Range(clips)

\* The assembler ran on a list in which one slide has an image but no audio
\* entry while its old audio file is still on disk, and another slide made
\* the only clip.
C8_Witness ==
    /\ pc = "assembled" /\ Len(clips) = 1
    /\ \E k \in 1..total :
         image[k] /\ ~audio_files[k] /\ audio[k].ex /\ k \notin Range(clips)

\* C9: the clips are in strictly ascending slide order, and when every slide
\* has image and audio and its clip was built the clip list is 1..N.
C9_ClipOrder ==
    pc = "assembled" =>
        /\ \A a, b \in 1..Len(clips) : a < b => clips[a] < clips[b]
        /\ (BothPresent \ clip_errors = 1..total)
             => clips = [k \in 1..total |-> k]

\* Both slides of a two-slide presentation survived: clips 1, 2.
C9_Witness ==
    pc = "assembled" /\ total = 2 /\ clips = <<1, 2>>

\* C10: in process_presentation a failed vision model or TTS call for slide
\* k leaves the job processing, puts None at position k of audio_files, and
\* the task only ends after all slides were processed, with the job
\* completed (unless the assembler call itself raises) and no clip for
\* slide k; as long as slides remain the loop can go on.
C10_FailureDoesNotAbort ==
    /\ [](task = "process" =>
            /\ \A k \in failed : k \in Done /\ ~audio_files[k]
            /\ failed # {} => status = "processing"
            /\ (failed # {} /\ pc = "loop" /\ Len(audio_files) < total)
                 => ENABLED process_presentation_slide
            /\ pc = "assembled" => \A k \in failed : k \notin Range(clips))
    /\ [][(task = "process" /\ failed # {} /\ task' # "process")
            => /\ Len(audio_files) = total
               /\ status' = "completed" \/ pc = "loop"]_vars

\* Slide 1's call failed, slide 2 was processed after it and is the only
\* clip of the video.
C10_Witness ==
    /\ task = "process" /\ pc = "assembled" /\ total = 2
    /\ failed = {1} /\ audio_files = <<FALSE, TRUE>> /\ clips = <<2>>

\* The finished loop of a backend task listed no audio file that is on disk.
NoAudioProduced ==
    /\ task \in {"process", "regen"} /\ pc = "assembled"
    /\ \A k \in 1..total : ~(audio_files[k] /\ audio[k].ex)

\* C11: when the slide loop of a backend task ends without a present audio
\* file for any slide, the step that ends the task sets the job's status to
\* failed and there is no video file.
C11_NoAudioMeansFailed ==
    [][(NoAudioProduced /\ task' = "none")
          => (status' = "failed" /\ ~video'.ex)]_vars

\* C12: every step that changes the job's status is the creation of the job
\* (pending), pending to processing, processing to completed, processing to
\* failed, or completed to processing by an accepted script edit batch that
\* schedules a regeneration; so failed is never left, and completed is only
\* left through an edit batch.
C12_StatusTransitions ==
    [][status' # status =>
          \/ <<status, status'>> \in {<<"nojob", "pending">>,
                                      <<"pending", "processing">>,
                                      <<"processing", "completed">>,
                                      <<"processing", "failed">>}
          \/ /\ status = "completed" /\ status' = "processing"
             /\ Len(background_tasks') = Len(background_tasks) + 1
             /\ background_tasks'[Len(background_tasks')].fn = "regen"
             /\ background_tasks'[Len(background_tasks')].slides # {}
             /\ response' = "200"]_vars

\* The job went from pending to processing to completed, an edit batch took
\* it back to processing, and its regeneration is about to complete it.
C12_Witness ==
    task = "regen" /\ pc = "assembled" /\ status = "processing"

\* The assembler of a backend task tried every encoder configuration and
\* none succeeded.
AllEncodesFailed ==
    /\ task \in {"process", "regen"} /\ pc = "assembled"
    /\ clips # <<>> /\ attempts = Configs /\ ~video.complete

\* C13: when the encode failed under every configuration, no video file is
\* left on disk, and the step that ends the task sets the job's status to
\* failed.
C13_EncodeFailureReported ==
    [][(AllEncodesFailed /\ task' = "none")
          => (~video.ex /\ status' = "failed")]_vars

\* C14: under fair scheduling of the background tasks, a job that is pending
\* or processing, after its creation or after an edit batch, eventually is
\* completed or failed.
C14_JobsTerminate ==
    (status \in {"pending", "processing"}) ~> (status \in {"completed", "failed"})

\* A script holds a text written by an edit batch, and the regeneration
\* that followed has ended: the job is completed and no task is left.
C14_Witness ==
    /\ status = "completed" /\ task = "none" /\ background_tasks = <<>>
    /\ \E k \in Slides : script[k].ex /\ script[k].text \in UserTexts

\* C15: a script edit request for a job whose status is not completed is
\* answered with an error, and leaves the job record, every script file and
\* every audio file unchanged and adds no background task.
C15_EditRejected ==
    [][(status # "completed" /\ update_scripts)
          => /\ response' \in {"400", "404"}
             /\ UNCHANGED <<job, script, audio, background_tasks, task, pc>>]_vars

\* An edit request was rejected while process_presentation is in its slide
\* loop.
C15_Witness ==
    /\ response = "400" /\ status = "processing"
    /\ task = "process" /\ pc = "loop"

\* C16: a job's status is pending, processing, completed or failed, and its
\* progress is an integer from 0 to 100, in every reachable state; and the
\* progress the two loops compute is in that range at every position i of a
\* deck of n slides, for n up to MaxDeck.
C16_StatusAndProgressRange ==
    /\ status # "nojob" =>
          /\ status \in {"pending", "processing", "completed", "failed"}
          /\ progress \in 0..100
    /\ \A n \in 1..MaxDeck : \A i \in 0..(n - 1) :
          /\ slide_progress(i, n) \in 0..100
          /\ regenerate_progress(i, n) \in 0..100

\* process_presentation is at the second slide of two: progress 50.
C16_Witness ==
    /\ task = "process" /\ status = "processing" /\ total = 2
    /\ Len(audio_files) = 2 /\ pc = "loop" /\ progress = 50

\* C17: on a processing or completed job, get_scripts (with every read
\* succeeding) lists every slide that has a script file, with its current
\* text, also the slides that come after a slide without a script file.
C17_ListsEveryScript ==
    get_scripts_allowed(status) =>
        LET scripts == get_scripts(script, [k \in Slides |-> TRUE], 1)
        IN \A k \in Slides :
             script[k].ex =>
                \E j \in 1..Len(scripts) :
                    /\ scripts[j].slide_number = k
                    /\ scripts[j].script = strip(script[k].text)

\* A background task of the job is scheduled or running.
TaskActive == background_tasks # <<>> \/ task \in {"process", "regen"}

\* C18: at most one background task is scheduled or running for the job at
\* any moment, and while one is, no upload or script edit request changes
\* the job's status or progress, schedules a task or writes a script.
C18_SingleOwner ==
    /\ [](Len(background_tasks) + Bit(task \in {"process", "regen"}) <= 1)
    /\ [][(TaskActive /\ (upload_presentation \/ update_scripts))
             => UNCHANGED <<job, background_tasks, script, task, pc>>]_vars

\* An edit request arrived while regenerate_audio_and_video was running and
\* was rejected.
C18_Witness ==
    /\ task = "regen" /\ pc = "loop" /\ response = "400"
    /\ status = "processing" /\ background_tasks = <<>>

\* A step of the slide loop of process_presentation, and the slide it
\* processes.
ProcessSlideStep ==
    task = "process" /\ pc = "loop" /\ Len(audio_files') = Len(audio_files) + 1

ThisSlide == Len(audio_files) + 1

\* No non-empty text is in the script file f.
ContentMiss(f) == ~f.ex \/ strip(f.text) = ""

\* C19 as stated: the slide loop of process_presentation calls the vision
\* model for a slide exactly when no non-empty script can be read from the
\* slide's script file.
C19_GeneratorIffMiss ==
    [][ProcessSlideStep =>
          (ThisSlide \in genCalls' <=>
              (ContentMiss(script[ThisSlide]) \/ faults' > faults))]_vars

\* C19 amended: the slide loop of process_presentation calls the vision
\* model for a slide exactly when no non-empty script can be read from the
\* slide's script file and a vision model is configured; a script it gets is
\* written with the current time before the staleness check, so that the
\* TTS engine is called exactly when the policy asks for it on the new
\* script file.  On every store the backend reaches, an iteration of either
\* full loop that reads a non-empty script makes no vision model call and
\* leaves the script file as it is, and main's iteration calls the vision
\* model on every miss.
C19_GeneratorIffMissAndModel ==
    /\ [][ProcessSlideStep =>
            LET k == ThisSlide
            IN /\ (ContentMiss(script[k]) /\ vision_model) => k \in genCalls'
               /\ ~vision_model => k \notin genCalls'
               /\ (~ContentMiss(script[k]) /\ faults' = faults)
                     => (k \notin genCalls' /\ script'[k] = script[k])
               /\ (k \in genCalls' /\ script'[k] # script[k]) =>
                     /\ script'[k] = [ex |-> TRUE, text |-> GenText, mtime |-> clock]
                     /\ tts_engine =>
                           (k \in synCalls'
                              <=> should_regenerate_audio(script'[k], audio[k]))]_vars
    /\ [](\A k \in Slides : \A o \in Outcomes :
            LET miss == ContentMiss(script[k]) \/ ~o.read
                m == main_iter(script[k], audio[k], o, clock)
                b == process_presentation_iter(script[k], audio[k], o,
                                               vision_model, tts_engine, clock)
            IN /\ m.gen <=> miss
               /\ b.gen <=> (miss /\ vision_model)
               /\ ~miss => (m.script = script[k] /\ b.script = script[k]))

\* process_presentation called the vision model for slide 1, saved its
\* script and then synthesized the audio.
C19_Witness ==
    /\ task = "process" /\ pc = "loop" /\ 1 \in genCalls /\ 1 \in synCalls
    /\ script[1] = [ex |-> TRUE, text |-> GenText, mtime |-> clock]
    /\ audio[1].ex

\* The script an iteration of a full loop works with on script file f under
\* outcome o, when vm tells whether the vision model can be called: the text
\* read, or else the text generated.
script_in_hand(f, o, vm) ==
    LET loaded == IF f.ex THEN load_script_from_file(f, o.read) ELSE None
    IN IF ~Truthy(loaded) /\ vm THEN generate_script_for_slide(o.gen) ELSE loaded

\* C20 as stated: the iteration that the slide loop of process_presentation
\* is about to make calls the TTS engine exactly when it has a script and
\* the staleness policy asks for regeneration.
C20_SynthesisIffStale ==
    (task = "process" /\ pc = "loop" /\ Len(audio_files) < total) =>
        \A o \in Outcomes :
            LET k == ThisSlide
                b == process_presentation_iter(script[k], audio[k], o,
                                               vision_model, tts_engine, clock)
                avail == Truthy(script_in_hand(script[k], o, vision_model))
            IN b.syn <=> (avail /\ should_regenerate_audio(b.script, audio[k]))

\* C20 amended: an iteration of a full slide loop calls the TTS engine
\* exactly when it has a script, a TTS engine is configured and the
\* staleness policy asks for regeneration; when it has a script and an
\* engine and the policy says fresh, the audio file is left as it is and is
\* listed; when it has no script, or the backend has no engine, the audio
\* file is left as it is and None is listed.
C20_SynthesisIffStaleAndEngine ==
    \A k \in Slides : \A o \in Outcomes :
        LET b == process_presentation_iter(script[k], audio[k], o,
                                           vision_model, tts_engine, clock)
            m == main_iter(script[k], audio[k], o, clock)
            availB == Truthy(script_in_hand(script[k], o, vision_model))
            availM == Truthy(script_in_hand(script[k], o, TRUE))
            staleB == should_regenerate_audio(b.script, audio[k])
            staleM == should_regenerate_audio(m.script, audio[k])
        IN /\ b.syn <=> (availB /\ tts_engine /\ staleB)
           /\ m.syn <=> (availM /\ staleM)
           /\ (availB /\ tts_engine /\ ~staleB)
                 => (b.audio = audio[k] /\ audio[k].ex /\ b.entry)
           /\ (availM /\ ~staleM)
                 => (m.audio = audio[k] /\ audio[k].ex /\ m.entry)
           /\ (~availB \/ ~tts_engine) => (b.audio = audio[k] /\ ~b.entry)
           /\ ~availM => (m.audio = audio[k] /\ ~m.entry)

\* process_presentation got no script for slide 1 and listed None, then
\* synthesized slide 2's audio and listed it.
C20_Witness ==
    /\ task = "process" /\ pc = "loop" /\ audio_files = <<FALSE, TRUE>>
    /\ ~script[1].ex /\ synCalls = {2} /\ audio[2].ex

\* A step of the loop of regenerate_audio_and_video (it processes ThisSlide).
RegenSlideStep ==
    task = "regen" /\ pc = "loop" /\ Len(audio_files') = Len(audio_files) + 1

\* An update_scripts step on a completed job.
EditStep == status = "completed" /\ update_scripts

\* C21 as stated: the regeneration calls the TTS engine for a slide exactly
\* when the slide is in the batch of successfully written scripts.
C21_EditForcesSynthesis ==
    [][RegenSlideStep =>
          (ThisSlide \in synCalls' <=> ThisSlide \in updated_slides)]_vars

\* C21 amended: an accepted edit batch schedules a regeneration for exactly
\* the slides whose script file it wrote, and when it wrote none the job
\* stays completed and nothing is scheduled.  The regeneration calls the
\* TTS engine only for slides of that set, and for such a slide it does so,
\* whatever the timestamps and the old text, when the slide is one of the
\* slide images, a TTS engine is configured and a non-blank text is read
\* from the script file; the new audio then has the current time.
C21_EditForcesSynthesisOfReadableScripts ==
    /\ [][EditStep =>
            IF Len(background_tasks') > Len(background_tasks)
            THEN LET S == background_tasks'[Len(background_tasks')].slides
                 IN /\ S # {} /\ status' = "processing"
                    /\ \A k \in S : /\ script'[k].ex
                                    /\ script'[k].mtime = clock
                                    /\ script'[k].text \in UserTexts
                    /\ \A k \in Slides \ S : script'[k] = script[k]
            ELSE status' = "completed" /\ script' = script]_vars
    /\ [][RegenSlideStep =>
            LET k == ThisSlide
            IN /\ k \in synCalls' =>
                    (k \in updated_slides /\ tts_engine /\ ~ContentMiss(script[k]))
               /\ (/\ k \in updated_slides /\ tts_engine
                   /\ ~ContentMiss(script[k]) /\ faults' = faults)
                     => /\ k \in synCalls'
                        /\ audio'[k] = [ex |-> TRUE, mtime |-> clock]
                        /\ audio_files'[k]]_vars
    /\ [](task = "regen" => synCalls \subseteq (updated_slides \cap 1..total))

\* At time 0 the first run wrote slide 1's audio, an edit batch rewrote its
\* script, and the regeneration synthesized it again although the staleness
\* policy sees equal timestamps.
C21_Witness ==
    /\ clock = 0 /\ task = "regen" /\ pc = "assembled"
    /\ updated_slides = {1} /\ synCalls = {1}
    /\ script[1].text \in UserTexts /\ audio[1].ex /\ clips = <<1>>

\* C22: every position told to the vision model is first for the first
\* slide, final for the last slide and middle for the others; the only slide
\* of a single-slide deck is the first and the last slide.
C22_PositionTold ==
    \A t \in told :
        /\ t[1] = 1 => t[2] = "first"
        /\ t[1] = total => t[2] = "final"
        /\ (1 < t[1] /\ t[1] < total) => t[2] = "middle"

\* C23: the probe of regenerate_audio_and_video returns the largest N such
\* that the images 1..N all exist, whatever lies after the first missing
\* image; the regeneration processes exactly the slides 1..N, in order, and
\* assembles clips of these slides only; N is the number of images that the
\* full run extracted.
C23_RegenerationCoversProbedSlides ==
    /\ \A imgs \in [Slides -> BOOLEAN] :
          LET N == probe_images(imgs, 1)
          IN /\ \A k \in 1..N : imgs[k]
             /\ (N + 1 \in Slides) => ~imgs[N + 1]
    /\ task = "regen" =>
          /\ total = probe_images(image, 1)
          /\ total = Cardinality({k \in Slides : image[k]})
          /\ Len(audio_files) <= total
          /\ synCalls \subseteq 1..Len(audio_files)
    /\ (task = "regen" /\ pc = "assembled") =>
          /\ Len(audio_files) = total
          /\ Range(clips) \subseteq 1..total

\* A regeneration of a two-slide job has processed both slides.
C23_Witness ==
    /\ task = "regen" /\ pc = "assembled" /\ total = 2
    /\ Len(audio_files) = 2 /\ image[1] /\ image[2] /\ synCalls = {2}

\* A step of the slide loop of main (it processes ThisSlide).
MainSlideStep ==
    task = "main" /\ pc = "loop" /\ Len(audio_files') = Len(audio_files) + 1

\* C24: the slide loop of main appends one entry per iteration, the entry
\* of slide i at position i, and touches the audio of that slide only; at
\* its end the list has one entry per slide image, and the count of
\* successful audio is the number of present entries, each of which names an
\* audio file that exists on disk.
C24_OneEntryPerSlide ==
    /\ [][MainSlideStep =>
            LET k == ThisSlide
            IN /\ SubSeq(audio_files', 1, k - 1) = audio_files
               /\ \A j \in Slides \ {k} : audio'[j] = audio[j]
               /\ audio_files'[k] => audio'[k].ex
               /\ successful_audio_count' =
                      successful_audio_count + Bit(audio_files'[k])]_vars
    /\ [](task = "main" =>
            /\ Len(audio_files) <= total
            /\ successful_audio_count =
                   Cardinality({k \in Done : audio_files[k] /\ audio[k].ex})
            /\ \A k \in Done : audio_files[k] => audio[k].ex
            /\ pc = "assembled" =>
                   /\ Len(audio_files) = total
                   /\ total = Cardinality({k \in Slides : image[k]}))

\* A two-slide run in which the synthesis of slide 1 failed: the list is
\* <<absent, present>> and the count is one.
C24_Witness ==
    /\ task = "main" /\ pc = "assembled" /\ total = 2
    /\ audio_files = <<FALSE, TRUE>> /\ successful_audio_count = 1
    /\ ~audio[1].ex /\ audio[2].ex /\ synCalls = {1, 2}

\* C25: in an iteration of main a script file that cannot be read is
\* treated like a missing one, the vision model is called; when the script
\* it returns cannot be saved the script file stays as it was, the
\* iteration goes on with the script in memory, calls the TTS engine when
\* the slide has no audio file, and the loop moves to the next slide.
C25_ScriptFileErrorsNotFatal ==
    /\ [](task = "main" /\ pc = "loop" /\ Len(audio_files) < total =>
            LET k == ThisSlide
            IN \A o \in Outcomes :
                 LET r == main_iter(script[k], audio[k], o, clock)
                 IN /\ (script[k].ex /\ ~o.read) => r.gen
                    /\ (r.gen /\ Truthy(generate_script_for_slide(o.gen)) /\ ~o.save) =>
                          /\ r.script = script[k]
                          /\ ~audio[k].ex => r.syn
                          /\ (r.syn /\ o.syn = "ok") =>
                                /\ r.entry
                                /\ r.audio = [ex |-> TRUE, mtime |-> clock])
    /\ [][MainSlideStep => task' = "main" /\ pc' = "loop"]_vars

\* The script of slide 1 was generated but could not be saved; its audio
\* was synthesized all the same and the loop went on to slide 2.
C25_Witness ==
    /\ task = "main" /\ pc = "loop" /\ total = 2 /\ audio_files = <<TRUE, TRUE>>
    /\ genCalls = {1, 2} /\ synCalls = {1, 2} /\ faults = 1
    /\ ~script[1].ex /\ audio[1].ex /\ script[2].ex

\* The assembler has been called by the running task and had clips to write.
Assembled == task # "none" /\ pc = "assembled" /\ clips # <<>>

\* For every outcome of the writes, the attempts of the assembler call that
\* the running task is about to make end with the first configuration whose
\* write succeeds, and there are three when none does.
StopsAtFirstSuccess ==
    (task # "none" /\ pc = "loop" /\ Len(audio_files) = total) =>
        \A clipOk \in SUBSET (1..total), e \in EncOutcomes :
            LET r == create_video_with_moviepy(image, audio, audio_files,
                                               clipOk, e, video)
            IN r.clips # <<>> =>
                 /\ r.attempts = SubSeq(Configs, 1, Retries(e.enc) + 1)
                 /\ Len(r.removals) = Retries(e.enc)
                 /\ r.video.complete <=> e.enc # 0

\* C26 as stated: the configurations are tried in the fixed order, at most
\* three of them, a fallback only after a failure and none after a success,
\* and before each retry the failed output file is removed.
C26_EncodeOrder ==
    /\ StopsAtFirstSuccess
    /\ Assembled =>
          /\ \E n \in 1..3 : attempts = SubSeq(Configs, 1, n)
          /\ Len(attempts) < 3 => video.ex /\ video.complete
          /\ Len(removals) = Len(attempts) - 1
          /\ \A j \in 1..Len(removals) : removals[j] # "kept"

\* C26 amended: the configurations are tried in the fixed order, at most
\* three of them, a fallback only after a failure and none after a success;
\* before each retry the failed output file, when there is one, is removed
\* or, when the removal fails, left in place, and the retry is made in both
\* cases.  An assembler call without clips makes no attempt.
C26_EncodeOrderBestEffortCleanup ==
    /\ StopsAtFirstSuccess
    /\ Assembled =>
          /\ \E n \in 1..3 : attempts = SubSeq(Configs, 1, n)
          /\ Len(attempts) < 3 => video.ex /\ video.complete
          /\ Len(removals) = Len(attempts) - 1
          /\ \A j \in 1..Len(removals) : removals[j] \in {"absent", "removed", "kept"}
          /\ (Len(removals) = 2 /\ removals[2] = "kept") => video.ex
    /\ (task # "none" /\ pc = "assembled" /\ clips = <<>>) =>
          attempts = <<>> /\ removals = <<>>

\* The primary write failed and left a file, which was removed; the first
\* fallback succeeded and the second was not tried.
C26_Witness ==
    /\ Assembled /\ attempts = <<"libx264_aac", "libx264_ultrafast">>
    /\ removals = <<"removed">> /\ video.complete

\* C27: a job becomes failed only in the step of its background task in
\* which the extraction yields no slide image or raises, or in which the
\* assembler call raises; that step ends the task, marks the job failed,
\* and the service goes on answering requests.  A slide step in which the
\* vision model or the TTS engine fails leaves the status and the task as
\* they are.
C27_OnlyFatalConditionsAbort ==
    /\ [][(status' = "failed" /\ status # "failed") =>
            /\ task \in {"process", "regen"} /\ task' = "none"
            /\ status = "processing"
            /\ \/ task = "process" /\ pc = "extract"
               \/ pc = "loop" /\ Len(audio_files) = total /\ faults' > faults]_vars
    /\ [][(task = "process" /\ pc = "extract" /\ pc' = "idle") =>
            (status' = "failed" /\ task' = "none")]_vars
    /\ [][(task \in {"process", "regen"} /\ pc = "loop"
             /\ Len(audio_files) = total /\ pc' = "idle") =>
            (status' = "failed" /\ task' = "none")]_vars
    /\ [][(failed' # {} /\ failed' # failed) =>
            (status' = status /\ status = "processing" /\ task' = task)]_vars
    /\ [](status = "failed" => (task = "none" /\ ENABLED update_scripts))

\* The slides of a job were processed, then the assembler call raised: the
\* job is failed, no task runs, no video was written.
C27_Witness ==
    /\ status = "failed" /\ task = "none" /\ faults = 1
    /\ image[1] /\ audio[1].ex /\ ~video.ex

\* A step of a run of main.
MainStep == task = "main" \/ task' = "main"

\* C28 as stated: a run of main leaves every script file that holds a
\* non-blank text as it is, content and timestamp.
C28_ScriptsKept ==
    [][MainStep =>
         \A k \in Slides : ~ContentMiss(script[k]) => script'[k] = script[k]]_vars

\* C28 amended: a run of main leaves every script file that holds a
\* non-blank text as it is, content and timestamp, and does not call the
\* vision model for it, provided the file can be read.  Only the step that
\* processes slide k, in which the read of script k fails and the vision
\* model is called, replaces such a script, with the generated text at the
\* current time.
C28_ReadableScriptsKept ==
    /\ [][MainStep =>
            \A k \in Slides :
                (~ContentMiss(script[k]) /\ script'[k] # script[k]) =>
                    /\ MainSlideStep /\ k = ThisSlide
                    /\ faults' > faults /\ k \in genCalls'
                    /\ script'[k] = [ex |-> TRUE, text |-> GenText, mtime |-> clock]]_vars
    /\ [](task = "main" /\ pc = "loop" /\ Len(audio_files) < total =>
            LET k == ThisSlide
            IN \A o \in Outcomes :
                 LET r == main_iter(script[k], audio[k], o, clock)
                 IN (~ContentMiss(script[k]) /\ o.read) =>
                        (r.script = script[k] /\ ~r.gen))

\* The user wrote the script of slide 1; a later run processed the slide
\* without a failure and the file is as the user left it.
C28_Witness ==
    /\ task = "main" /\ pc = "loop" /\ Len(audio_files) = 1 /\ faults = 0
    /\ script[1].text = "usr" /\ genCalls = {} /\ audio[1].ex

\* C29: when a background task marks the job completed, the video file
\* exists, is a complete video, and was written by the assembler call of
\* that task; and whenever the job is completed the video file exists and
\* is a complete video.
C29_CompletedHasFreshVideo ==
    /\ [][(status' = "completed" /\ status # "completed") =>
            /\ video'.ex /\ video'.complete
            /\ clips # <<>> /\ attempts # <<>>]_vars
    /\ [](status = "completed" => (video.ex /\ video.complete))

====
